---- MODULE Spec2Model ----
(***************************************************************************)
(* Model of app/services/scraper.py (search_properties and its helpers)    *)
(* and of the Property schema of app/schemas/property.py.                  *)
(*                                                                         *)
(* Python values are tagged records [t, k, v]:                             *)
(*   t  the Python type ("NoneType", "float", "numpy.float64", "str"),     *)
(*   k  the kind of value inside the type ("fin", "nan", "inf" for the     *)
(*      float types, "numeric" or "text" for a str, "none" for None),      *)
(*   v  the payload: a finite float in hundredths (of a degree for a       *)
(*      coordinate, of a mile for a distance or a radius), the float a     *)
(*      numeric str parses to, or the identity of a text.                  *)
(* A dict is a function from its keys to values, a list is a sequence.     *)
(***************************************************************************)
EXTENDS Integers, Sequences, FiniteSets, TLC

\* Largest number of rows in the table the scraper returns.
MaxRows == 3

\* R of haversine_distance: the Earth's radius in miles.
EarthRadius == 3959

----------------------------------------------------------------------------
\* Python values

PyNone == [t |-> "NoneType", k |-> "none", v |-> 0]
PyFloat(n) == [t |-> "float", k |-> "fin", v |-> n]
PyNaN == [t |-> "float", k |-> "nan", v |-> 0]
PyInf == [t |-> "float", k |-> "inf", v |-> 0]
NpFloat(n) == [t |-> "numpy.float64", k |-> "fin", v |-> n]
NpNaN == [t |-> "numpy.float64", k |-> "nan", v |-> 0]
StrNumeric(n) == [t |-> "str", k |-> "numeric", v |-> n]
StrText(n) == [t |-> "str", k |-> "text", v |-> n]

IsNone(x) == x.t = "NoneType"
\* isinstance(x, float): numpy.float64 is a subclass of float
IsFloat(x) == x.t \in {"float", "numpy.float64"}
\* np.isnan(x) for a float
IsNaN(x) == IsFloat(x) /\ x.k = "nan"
IsInf(x) == IsFloat(x) /\ x.k = "inf"
IsFinite(x) == IsFloat(x) /\ x.k = "fin"

\* The outcome of an expression: a value, or the exception it raises.
Ok(x) == [exc |-> "none", val |-> x]
Raise(e) == [exc |-> e, val |-> PyNone]

\* float(x)
float(x) ==
    CASE x.t = "float" -> Ok(x)
      [] x.t = "numpy.float64" -> Ok([t |-> "float", k |-> x.k, v |-> x.v])
      [] x.t = "str" /\ x.k = "numeric" -> Ok(PyFloat(x.v))
      [] x.t = "str" /\ x.k = "text" -> Raise("ValueError")
      [] OTHER -> Raise("TypeError")

----------------------------------------------------------------------------
\* The table the scraper returns: the rows it may hold.

\* The longitude of every finite longitude cell: -122.00 degrees.
Meridian == 0 - 12200

\* The (latitude, longitude) cells a row of the table may carry.
CoordinateCells ==
    { <<PyFloat(3700), PyFloat(Meridian)>>,
      <<PyFloat(3701), PyFloat(Meridian)>>,
      <<NpFloat(3699), NpFloat(Meridian)>>,
      <<PyNone, PyFloat(Meridian)>>,
      <<PyFloat(3700), PyNone>>,
      <<NpNaN, NpNaN>>,
      <<PyInf, PyFloat(Meridian)>>,
      <<StrText(0), PyFloat(Meridian)>>,
      <<StrNumeric(3702), StrNumeric(Meridian)>> }

\* The radius argument: None, or a finite float >= 0 (hundredths of a mile).
Radii == {PyNone, PyFloat(0), PyFloat(69)}

\* What scrape_property may raise.
ScrapeExceptions == {"ConnectionError", "ValueError"}

\* df.to_dict(orient="records"): row i of the table, property_id being the
\* text that identifies the listing.
MakeRecord(i, cell) ==
    [property_id |-> StrText(i), latitude |-> cell[1], longitude |-> cell[2]]

Tables ==
    UNION { { [i \in 1..n |-> MakeRecord(i, cells[i])] :
                cells \in [1..n -> CoordinateCells] } : n \in 0..MaxRows }

----------------------------------------------------------------------------
\* haversine_distance followed by round(distance, 2)

Abs(n) == IF n < 0 THEN -n ELSE n

\* n / d rounded to the nearest integer (n >= 0, d > 0)
RoundDiv(n, d) == (2 * n + d) \div (2 * d)

\* round(haversine_distance(lat1, lon1, lat2, lon2), 2) for floats.
\* math.cos and math.sin raise ValueError on an infinite argument and give
\* nan on a nan one: cos(lat1), cos(lat2) see the latitudes, sin(dlat / 2)
\* and sin(dlon / 2) the differences (inf - inf is nan).
\* For two finite points of one meridian, dlon = 0 and the formula is
\* R * |dlat| with dlat in radians: in hundredths of a mile, for latitudes in
\* hundredths of a degree, round(R * |dlat| * pi / 180), pi taken as 355/113.
haversine_distance(lat1, lon1, lat2, lon2) ==
    CASE IsInf(lat1) \/ IsInf(lat2) -> Raise("ValueError")
      [] IsNaN(lat1) \/ IsNaN(lat2) \/ IsNaN(lon1) \/ IsNaN(lon2) -> Ok(PyNaN)
      [] IsInf(lon1) /\ IsInf(lon2) -> Ok(PyNaN)
      [] IsInf(lon1) \/ IsInf(lon2) -> Raise("ValueError")
      [] OTHER ->
           Ok(PyFloat(RoundDiv(EarthRadius * Abs(lat2.v - lat1.v) * 355,
                               113 * 180)))

----------------------------------------------------------------------------
\* get_center_coordinates

NoCenter == <<>>

\* The scan of get_center_coordinates from row i on.
RECURSIVE CenterFrom(_, _)
CenterFrom(properties, i) ==
    IF i > Len(properties) THEN NoCenter
    ELSE LET lat == properties[i].latitude
             lng == properties[i].longitude
         IN  IF ~IsNone(lat) /\ ~IsNone(lng)
             THEN LET lat_f == float(lat)
                      lng_f == float(lng)
                  IN  IF lat_f.exc # "none" \/ lng_f.exc # "none"
                      THEN CenterFrom(properties, i + 1)
                      ELSE IF ~(IsNaN(lat_f.val) \/ IsNaN(lng_f.val))
                           THEN <<lat_f.val, lng_f.val>>
                           ELSE CenterFrom(properties, i + 1)
             ELSE CenterFrom(properties, i + 1)

get_center_coordinates(properties) == CenterFrom(properties, 1)

----------------------------------------------------------------------------
\* is_scalar_na and convert_value
\*
\* Further Python values, tagged as above. A date or time carries the day it
\* names in v, and the text isoformat() makes of it is the str of kind "iso"
\* with the same v. A list, tuple or numpy.ndarray is of kind "seq" with the
\* sequence of its elements in v, a dict of kind "map" with the function
\* from its keys to its values in v.

PyInt(n) == [t |-> "int", k |-> "fin", v |-> n]
PyBool(b) == [t |-> "bool", k |-> "fin", v |-> b]
NpInt(n) == [t |-> "numpy.int64", k |-> "fin", v |-> n]
NpBool(b) == [t |-> "numpy.bool_", k |-> "fin", v |-> b]
NpFloat32(n) == [t |-> "numpy.float32", k |-> "fin", v |-> n]
NpFloat32NaN == [t |-> "numpy.float32", k |-> "nan", v |-> 0]
Timestamp(d) == [t |-> "pandas.Timestamp", k |-> "fin", v |-> d]
PdNaT == [t |-> "pandas.NaTType", k |-> "nat", v |-> 0]
PdNA == [t |-> "pandas.NAType", k |-> "na", v |-> 0]
PyDate(d) == [t |-> "datetime.date", k |-> "fin", v |-> d]
NpDatetime(d) == [t |-> "numpy.datetime64", k |-> "fin", v |-> d]
NpNaT == [t |-> "numpy.datetime64", k |-> "nat", v |-> 0]
StrIso(d) == [t |-> "str", k |-> "iso", v |-> d]
PyList(elems) == [t |-> "list", k |-> "seq", v |-> elems]
PyTuple(elems) == [t |-> "tuple", k |-> "seq", v |-> elems]
NdArray(elems) == [t |-> "numpy.ndarray", k |-> "seq", v |-> elems]
PyDict(items) == [t |-> "dict", k |-> "map", v |-> items]

\* isinstance(value, (list, tuple, np.ndarray))
IsSeq(x) == x.k = "seq"
\* isinstance(value, dict)
IsDict(x) == x.k = "map"
\* isinstance(value, (np.floating, np.float64, np.float32))
IsNpFloating(x) == x.t \in {"numpy.float64", "numpy.float32"}
\* hasattr(value, 'isoformat') and callable(value.isoformat)
HasIsoformat(x) == x.t \in {"pandas.Timestamp", "datetime.date"}

\* pd.api.types.is_scalar(value) and pd.isna(value): None, a NaN of any
\* float type, NaT (pandas' or numpy's) and pd.NA.
PandasIsNa(x) == IsNone(x) \/ x.k \in {"nan", "nat", "na"}

is_scalar_na(value) ==
    IF IsNone(value) THEN TRUE
    ELSE IF IsSeq(value) \/ IsDict(value) THEN FALSE
    ELSE IF IsFloat(value) /\ IsNaN(value) THEN TRUE
    ELSE PandasIsNa(value)

\* value.to_pydatetime(): the datetime of a Timestamp, not its text.
to_pydatetime(value) == PyDate(value.v)

\* value.isoformat()
isoformat(value) == StrIso(value.v)

\* if isinstance(value, pd.Timestamp): return value.isoformat()
TimestampToText(value) == isoformat(value)

\* One element of ndarray.tolist(): the numpy numbers of a typed array come
\* out as Python numbers, the objects of an object array as they are.
ToNative(x) ==
    CASE x.t = "numpy.int64" -> [t |-> "int", k |-> x.k, v |-> x.v]
      [] IsNpFloating(x) -> [t |-> "float", k |-> x.k, v |-> x.v]
      [] x.t = "numpy.bool_" -> [t |-> "bool", k |-> x.k, v |-> x.v]
      [] OTHER -> x

tolist(value) == [i \in 1..Len(value.v) |-> ToNative(value.v[i])]

RECURSIVE convert_value(_)
convert_value(value) ==
    CASE IsNone(value) -> PyNone
      [] is_scalar_na(value) -> PyNone
      [] value.t = "pandas.Timestamp" -> TimestampToText(value)
      [] HasIsoformat(value) -> isoformat(value)
      [] value.t = "numpy.int64" -> [t |-> "int", k |-> value.k, v |-> value.v]
      [] IsNpFloating(value) ->
           IF value.k = "nan" THEN PyNone
           ELSE [t |-> "float", k |-> value.k, v |-> value.v]
      [] value.t = "numpy.bool_" -> [t |-> "bool", k |-> value.k, v |-> value.v]
      [] value.t = "numpy.ndarray" ->
           PyList([i \in 1..Len(value.v) |-> convert_value(tolist(value)[i])])
      [] IsSeq(value) ->
           PyList([i \in 1..Len(value.v) |-> convert_value(value.v[i])])
      [] IsDict(value) ->
           PyDict([key \in DOMAIN value.v |-> convert_value(value.v[key])])
      [] OTHER -> value

\* cleaned = {key: convert_value(value) for key, value in record.items()}
CleanRecord(record) == [key \in DOMAIN record |-> convert_value(record[key])]

\* The distance block of the loop body: cleaned with "distance_miles" set, or
\* cleaned as it is. float() and haversine_distance raise inside the
\* try, and except (ValueError, TypeError) stores None.
AttachDistance(cleaned, center_coords) ==
    IF center_coords = NoCenter THEN cleaned
    ELSE LET prop_lat == cleaned.latitude
             prop_lng == cleaned.longitude
         IN  IF IsNone(prop_lat) \/ IsNone(prop_lng) THEN cleaned
             ELSE LET lat_f == float(prop_lat)
                      lng_f == float(prop_lng)
                      distance ==
                          IF lat_f.exc # "none" THEN lat_f
                          ELSE IF lng_f.exc # "none" THEN lng_f
                          ELSE haversine_distance(center_coords[1],
                                                  center_coords[2],
                                                  lat_f.val, lng_f.val)
                  IN  [key \in DOMAIN cleaned \cup {"distance_miles"} |->
                          IF key # "distance_miles" THEN cleaned[key]
                          ELSE IF distance.exc \in {"ValueError", "TypeError"}
                               THEN PyNone
                               ELSE distance.val]

----------------------------------------------------------------------------
\* class Property(BaseModel)

\* The fields Property declares, of those the model's rows carry. The class
\* declares no distance_miles and no model_config, and pydantic ignores the
\* keyword arguments a model does not declare.
PropertyFields == {"property_id", "latitude", "longitude"}

\* The fields declared Optional[float].
FloatFields == {"latitude", "longitude"}

\* pydantic's validation of an Optional[float] field: None and floats pass,
\* a numeric str is parsed, any other str is refused.
ValidFloat(x) == IsNone(x) \/ x.t = "float" \/ (x.t = "str" /\ x.k = "numeric")

CoerceFloat(x) == IF x.t = "str" THEN PyFloat(x.v) ELSE x

\* Property(**cleaned): the object, or ValidationError.
Property(cleaned) ==
    IF \E f \in FloatFields \cap DOMAIN cleaned : ~ValidFloat(cleaned[f])
    THEN Raise("ValidationError")
    ELSE Ok([f \in PropertyFields |->
                IF f \notin DOMAIN cleaned THEN PyNone
                ELSE IF f \in FloatFields THEN CoerceFloat(cleaned[f])
                ELSE cleaned[f]])

\* p.<name> raises AttributeError unless the object has the attribute.
HasAttr(p, name) == name \in DOMAIN p

----------------------------------------------------------------------------
\* The radius filter and the sort of search_properties

\* a <= b on floats (False when either is nan)
FloatLE(a, b) ==
    /\ ~IsNaN(a) /\ ~IsNaN(b)
    /\ \/ IsInf(b)
       \/ IsFinite(a) /\ IsFinite(b) /\ a.v <= b.v

\* a < b on floats
FloatLT(a, b) == FloatLE(a, b) /\ ~FloatLE(b, a)

\* FilterApplies without its test of the center.
FilterWheneverRadius(radius, center_coords) == ~IsNone(radius)

\* if radius is not None and center_coords is not None
FilterApplies(radius, center_coords) ==
    ~IsNone(radius) /\ center_coords # NoCenter

\* SortApplies without its test of the radius.
SortAlways(radius) == TRUE

\* if radius is not None
SortApplies(radius) == ~IsNone(radius)

\* The list comprehension of the filter: AttributeError as soon as an
\* element has no distance_miles.
RadiusFilter(properties, radius) ==
    IF \E i \in 1..Len(properties) : ~HasAttr(properties[i], "distance_miles")
    THEN Raise("AttributeError")
    ELSE Ok(SelectSeq(properties,
                      LAMBDA p : /\ ~IsNone(p.distance_miles)
                                 /\ FloatLE(p.distance_miles, radius)))

\* The key of the sort.
SortKey(p) == IF ~IsNone(p.distance_miles) THEN p.distance_miles ELSE PyInf

\* x inserted into the sorted list s after every element not greater than it.
RECURSIVE InsertSorted(_, _)
InsertSorted(s, x) ==
    IF s = <<>> THEN <<x>>
    ELSE IF FloatLT(SortKey(x), SortKey(s[Len(s)]))
         THEN Append(InsertSorted(SubSeq(s, 1, Len(s) - 1), x), s[Len(s)])
         ELSE Append(s, x)

RECURSIVE StableSort(_)
StableSort(s) ==
    IF s = <<>> THEN <<>>
    ELSE InsertSorted(StableSort(SubSeq(s, 1, Len(s) - 1)), s[Len(s)])

\* properties.sort(key=...): list.sort calls the key on every element.
SortByDistance(properties) ==
    IF \E i \in 1..Len(properties) : ~HasAttr(properties[i], "distance_miles")
    THEN Raise("AttributeError")
    ELSE Ok(StableSort(properties))

\* ScraperError raised without "from e".
ScraperErrorNoCause(e, at) == [type |-> "ScraperError", cause |-> "none", at |-> at]

\* except Exception as e: raise ScraperError(...) from e. "at" is the
\* statement of the try block that raised e (the traceback of the cause).
ScraperError(e, at) == [type |-> "ScraperError", cause |-> e, at |-> at]

NoError == [type |-> "none", cause |-> "none", at |-> "none"]

----------------------------------------------------------------------------
\* One call of search_properties at a time.

VARIABLES
    pc,             \* where the call stands: idle, scrape, loop, filter, sort, done
    radius,         \* the radius argument
    scrape_calls,   \* how often the call has invoked scrape_property
    scrape_exc,     \* what scrape_property raised ("none": nothing)
    records,        \* df.to_dict(orient="records")
    center_coords,  \* get_center_coordinates(records)
    cleaned_rows,   \* the dict "cleaned" of each finished loop iteration
    properties,     \* the list "properties"
    outcome,        \* none, returned, raised
    result,         \* the list returned
    error           \* the exception raised to the caller

vars == <<pc, radius, scrape_calls, scrape_exc, records, center_coords,
          cleaned_rows, properties, outcome, result, error>>

\* The value normalizer on its own (convert_value on one cell).
VARIABLES
    norm_pc,      \* idle, raw, converted, reconverted
    raw_value,    \* the cell of the table
    converted,    \* convert_value(raw_value)
    reconverted   \* convert_value(converted)

norm_vars == <<norm_pc, raw_value, converted, reconverted>>

\* One request to /properties/search at a time.
VARIABLES
    http_pc,         \* idle, handler, service, responded
    method,          \* GET or POST
    supplied,        \* the optional parameters the request gives a value
    kwargs,          \* the keys of the handler's kwargs
    search_invoked,  \* how often the body of search_properties was entered
    response         \* the HTTP response

http_vars == <<http_pc, method, supplied, kwargs, search_invoked, response>>

all_vars == <<vars, norm_vars, http_vars>>

NoResponse == [status |-> "none", detail |-> "none", cause |-> "none"]

Init ==
    /\ pc = "idle"
    /\ radius = PyNone
    /\ scrape_calls = 0
    /\ scrape_exc = "none"
    /\ records = <<>>
    /\ center_coords = NoCenter
    /\ cleaned_rows = <<>>
    /\ properties = <<>>
    /\ outcome = "none"
    /\ result = <<>>
    /\ error = NoError
    /\ norm_pc = "idle"
    /\ raw_value = PyNone
    /\ converted = PyNone
    /\ reconverted = PyNone
    /\ http_pc = "idle"
    /\ method = "GET"
    /\ supplied = {}
    /\ kwargs = {}
    /\ search_invoked = 0
    /\ response = NoResponse

\* return value: the call ends with a list
Return(value) ==
    /\ pc' = "done"
    /\ outcome' = "returned"
    /\ result' = value
    /\ error' = NoError

\* the except clause of the function: the call ends with ScraperError
Fail(e, at) ==
    /\ pc' = "done"
    /\ outcome' = "raised"
    /\ result' = <<>>
    /\ error' = ScraperError(e, at)

\* A caller calls search_properties(..., radius=r).
Call(r) ==
    /\ pc \in {"idle", "done"}
    /\ pc' = "scrape"
    /\ radius' = r
    /\ scrape_calls' = 0
    /\ scrape_exc' = "none"
    /\ records' = <<>>
    /\ center_coords' = NoCenter
    /\ cleaned_rows' = <<>>
    /\ properties' = <<>>
    /\ outcome' = "none"
    /\ result' = <<>>
    /\ error' = NoError
    /\ UNCHANGED <<norm_vars, http_vars>>

\* df = scrape_property(**kwargs) raises e.
ScrapeRaises(e) ==
    /\ pc = "scrape"
    /\ scrape_calls' = scrape_calls + 1
    /\ scrape_exc' = e
    /\ Fail(e, "scrape_property")
    /\ UNCHANGED <<radius, records, center_coords, cleaned_rows, properties>>
    /\ UNCHANGED <<norm_vars, http_vars>>

\* df = scrape_property(**kwargs) returns a table: [] for an empty one,
\* else its records and their center.
ScrapeReturns(table) ==
    /\ pc = "scrape"
    /\ scrape_calls' = scrape_calls + 1
    /\ IF table = <<>>
       THEN /\ Return(<<>>)
            /\ UNCHANGED <<records, center_coords>>
       ELSE /\ pc' = "loop"
            /\ records' = table
            /\ center_coords' = get_center_coordinates(table)
            /\ UNCHANGED <<outcome, result, error>>
    /\ UNCHANGED <<radius, scrape_exc, cleaned_rows, properties>>
    /\ UNCHANGED <<norm_vars, http_vars>>

\* One iteration of "for record in records".
LoopBody ==
    /\ pc = "loop"
    /\ LET record == records[Len(cleaned_rows) + 1]
           cleaned == AttachDistance(CleanRecord(record), center_coords)
           prop == Property(cleaned)
       IN  /\ cleaned_rows' = Append(cleaned_rows, cleaned)
           /\ IF prop.exc # "none"
              THEN /\ Fail(prop.exc, "Property")
                   /\ UNCHANGED properties
              ELSE /\ properties' = Append(properties, prop.val)
                   /\ pc' = IF Len(cleaned_rows) + 1 = Len(records)
                            THEN "filter" ELSE "loop"
                   /\ UNCHANGED <<outcome, result, error>>
    /\ UNCHANGED <<radius, scrape_calls, scrape_exc, records, center_coords>>
    /\ UNCHANGED <<norm_vars, http_vars>>

\* "Filter by radius if specified"
FilterStep ==
    /\ pc = "filter"
    /\ IF FilterApplies(radius, center_coords)
       THEN LET kept == RadiusFilter(properties, radius)
            IN  IF kept.exc # "none"
                THEN /\ Fail(kept.exc, "filter")
                     /\ UNCHANGED properties
                ELSE /\ properties' = kept.val
                     /\ pc' = "sort"
                     /\ UNCHANGED <<outcome, result, error>>
       ELSE /\ pc' = "sort"
            /\ UNCHANGED <<properties, outcome, result, error>>
    /\ UNCHANGED <<radius, scrape_calls, scrape_exc, records, center_coords,
                   cleaned_rows>>
    /\ UNCHANGED <<norm_vars, http_vars>>

\* "Sort by distance if radius filter is applied", then return properties.
SortStep ==
    /\ pc = "sort"
    /\ IF SortApplies(radius)
       THEN LET sorted == SortByDistance(properties)
            IN  IF sorted.exc # "none"
                THEN /\ Fail(sorted.exc, "sort")
                     /\ UNCHANGED properties
                ELSE /\ properties' = sorted.val
                     /\ Return(sorted.val)
       ELSE /\ Return(properties)
            /\ UNCHANGED properties
    /\ UNCHANGED <<radius, scrape_calls, scrape_exc, records, center_coords,
                   cleaned_rows>>
    /\ UNCHANGED <<norm_vars, http_vars>>

Next ==
    \/ \E r \in Radii : Call(r)
    \/ \E e \in ScrapeExceptions : ScrapeRaises(e)
    \/ \E table \in Tables : ScrapeReturns(table)
    \/ LoopBody
    \/ FilterStep
    \/ SortStep


----------------------------------------------------------------------------
\* What the properties below speak of

Done == pc = "done"

\* The scraper returned a table with rows.
GotRows == records # <<>>

\* The listings of a list, in its order.
Ids(rows) == [i \in 1..Len(rows) |-> rows[i].property_id]

\* The input row a returned row was made from.
RowOf(p) == records[p.property_id.v]

\* distance_miles of a dict or an object: None when it has none.
DistanceOf(p) == IF HasAttr(p, "distance_miles") THEN p.distance_miles ELSE PyNone

\* A cell is present and converts to a float.
Convertible(x) == ~IsNone(x) /\ float(x).exc = "none"

\* A row carries valid coordinates: both cells present, convertible, finite.
ValidPair(row) ==
    /\ Convertible(row.latitude) /\ IsFinite(float(row.latitude).val)
    /\ Convertible(row.longitude) /\ IsFinite(float(row.longitude).val)

\* A coordinate cell holds non-numeric text.
TextCell(x) == x.t = "str" /\ x.k = "text"

HasTextCell(row) == TextCell(row.latitude) \/ TextCell(row.longitude)

\* Property accepts every row of the batch (no coordinate cell is text).
NoTextCell == \A i \in 1..Len(records) : ~HasTextCell(records[i])

\* The positions of the input rows whose computed distance is within r.
WithinRadius(r) ==
    { i \in 1..Len(cleaned_rows) :
        /\ ~IsNone(DistanceOf(cleaned_rows[i]))
        /\ FloatLE(DistanceOf(cleaned_rows[i]), r) }

----------------------------------------------------------------------------
\* C1. Radius filter: for a non-empty batch, a radius and an existing center,
\* the call returns exactly the input rows whose computed distance_miles is
\* present and <= radius (the boundary included), and no other row.
\* Stated for the batches without a text cell (those are C8's).
C1_RadiusFilterExact ==
    (Done /\ GotRows /\ NoTextCell /\ ~IsNone(radius)
          /\ center_coords # NoCenter) =>
        /\ outcome = "returned"
        /\ Len(cleaned_rows) = Len(records)
        /\ {result[i].property_id.v : i \in 1..Len(result)} = WithinRadius(radius)
        /\ Len(result) = Cardinality(WithinRadius(radius))

\* C2. Ordering: with a radius, the call returns its rows in ascending order
\* of distance_miles, an absent distance after every finite one, and rows of
\* equal distance in their input order.
\* Stated for the batches without a text cell (those are C8's).
C2_SortedByDistance ==
    (Done /\ GotRows /\ NoTextCell /\ ~IsNone(radius)) =>
        /\ outcome = "returned"
        /\ \A i, j \in 1..Len(result) :
              i < j =>
                 /\ FloatLE(SortKey([distance_miles |-> DistanceOf(result[i])]),
                            SortKey([distance_miles |-> DistanceOf(result[j])]))
                 /\ DistanceOf(result[i]) = DistanceOf(result[j]) =>
                        result[i].property_id.v < result[j].property_id.v

\* C3. Distance annotation: a returned row carries distance_miles (the
\* rounded haversine distance from the center, 0.0 for the center row) if and
\* only if a center exists and the row has a present, convertible, finite
\* latitude/longitude pair; with and without a radius.
C3_DistanceAnnotation ==
    (Done /\ outcome = "returned") =>
        \A i \in 1..Len(result) :
            LET row == RowOf(result[i])
                d == DistanceOf(result[i])
            IN  IF center_coords # NoCenter /\ ValidPair(row)
                THEN d = haversine_distance(center_coords[1], center_coords[2],
                                            float(row.latitude).val,
                                            float(row.longitude).val).val
                ELSE IsNone(d)

ClaimedCenter ==
    IF \E i \in 1..Len(records) : ValidPair(records[i])
    THEN LET first == CHOOSE i \in 1..Len(records) :
                         /\ ValidPair(records[i])
                         /\ \A j \in 1..(i - 1) : ~ValidPair(records[j])
         IN  <<float(records[first].latitude).val,
               float(records[first].longitude).val>>
    ELSE NoCenter

\* C5. Center selection: get_center_coordinates returns the pair of the first
\* row whose two fields are present and convertible to finite floats, a row
\* whose conversion fails or yields NaN or an infinite value being skipped,
\* and no center exactly when no row qualifies.
C5_CenterIsFirstFinite ==
    (pc \in {"loop", "filter", "sort", "done"} /\ GotRows) =>
        center_coords = ClaimedCenter

\* No row of the batch carries valid coordinates.
NoValidPair == \A i \in 1..Len(records) : ~ValidPair(records[i])

\* No dict "cleaned" got a distance_miles.
NoneAnnotated ==
    \A i \in 1..Len(cleaned_rows) : IsNone(DistanceOf(cleaned_rows[i]))

\* C6. No center, any radius: for a non-empty batch without valid
\* coordinates the call returns all input rows, none annotated, with or
\* without a radius. Stated for the batches without a text cell in which
\* get_center_coordinates finds no center either.
C6_NoCenterReturnsAll ==
    (Done /\ GotRows /\ NoTextCell /\ NoValidPair
          /\ center_coords = NoCenter) =>
        /\ outcome = "returned"
        /\ Ids(result) = Ids(records)
        /\ \A i \in 1..Len(result) : IsNone(DistanceOf(result[i]))

\* C7 as claimed: for a batch without valid coordinates no row gets
\* distance_miles, and with a radius the result is the empty list: the
\* radius filter leaves no row, and the call returns [].
\* Stated for the non-empty batches without a text cell in which
\* get_center_coordinates finds no center either.
C7_NoCoordsRadiusEmpty ==
    (GotRows /\ NoTextCell /\ NoValidPair /\ center_coords = NoCenter
             /\ ~IsNone(radius)) =>
        /\ NoneAnnotated
        /\ pc = "sort" => properties = <<>>
        /\ Done => (outcome = "returned" /\ result = <<>>)

\* C7, amended. For a non-empty batch in which no row carries coordinates
\* that are present, convertible and not NaN (no center exists), no row gets
\* distance_miles, the radius filter is skipped and removes no row, and the
\* call does not return the empty list (nor fails in the filter).
C7_NoCenterFilterSkipped ==
    (GotRows /\ center_coords = NoCenter) =>
        /\ NoneAnnotated
        /\ pc = "sort" => Ids(properties) = Ids(records)
        /\ Done => /\ ~(outcome = "returned" /\ result = <<>>)
                   /\ error.at # "filter"

\* C7's case: a radius, rows but no center, and the call past its filter.
C7_Witness ==
    /\ Done /\ ~IsNone(radius) /\ center_coords = NoCenter
    /\ Len(records) = 2 /\ Len(cleaned_rows) = 2 /\ Len(properties) = 2
    /\ error.at = "sort"

\* C8. Bad coordinates are not fatal: a batch with a row whose latitude or
\* longitude is non-numeric text does not make the call raise.
C8_BadCoordinatesNotFatal ==
    (Done /\ scrape_exc = "none" /\ ~NoTextCell) =>
        outcome = "returned"

\* C9. Only a scrape failure is a hard error: the call raises only when
\* scrape_property itself failed.
C9_OnlyScrapeFailureRaises ==
    (Done /\ outcome = "raised") => scrape_exc # "none"

\* C10. Scrape failure handling: the scraper is invoked once per call and
\* never again; when it fails the call raises one ScraperError whose cause
\* is the scraper's exception, and returns no list.
C10_ScrapeFailureWrapped ==
    /\ scrape_calls <= 1
    /\ pc \in {"loop", "filter", "sort", "done"} => scrape_calls = 1
    /\ (Done /\ scrape_exc # "none") =>
           /\ outcome = "raised"
           /\ error = [type |-> "ScraperError", cause |-> scrape_exc,
                       at |-> "scrape_property"]
           /\ result = <<>> /\ properties = <<>>

\* C10's case: the scraper failed and the call has ended.
C10_Witness ==
    /\ Done /\ scrape_exc = "ConnectionError" /\ scrape_calls = 1
    /\ outcome = "raised"

----------------------------------------------------------------------------
\* The value normalizer on its own: a cell of the table, and convert_value
\* applied to it and to its own output.

\* Deepest nesting of a cell, and most elements of a sequence in it.
MaxDepth == 2
MaxLen == 2

\* The cells that are not built of other cells.
Leaves ==
    { PyNone, PyFloat(150), PyNaN, PyInf, NpFloat(150), NpNaN,
      NpFloat32(150), NpFloat32NaN, PyInt(3), NpInt(3), PyBool(1), NpBool(1),
      StrText(0), Timestamp(1), PdNaT, PdNA, PyDate(1), NpDatetime(1), NpNaT,
      PyList(<<>>), PyTuple(<<>>), NdArray(<<>>), PyDict(<<>>) }

\* The cell a sequence may be extended by.
Siblings == {NpNaN}

SeqTypes == {"list", "tuple", "numpy.ndarray"}

DictKeys == {"a"}

\* How deep the sequences and mappings of a value nest.
RECURSIVE Depth(_)
Depth(x) ==
    IF IsSeq(x)
    THEN 1 + (IF x.v = <<>> THEN 0
              ELSE Depth(x.v[1]))
    ELSE IF IsDict(x)
    THEN 1 + (IF DOMAIN x.v = {} THEN 0
              ELSE Depth(x.v[CHOOSE key \in DOMAIN x.v : TRUE]))
    ELSE 0

\* The table holds the cell x.
Cell(x) ==
    /\ norm_pc = "idle"
    /\ norm_pc' = "raw"
    /\ raw_value' = x
    /\ UNCHANGED <<converted, reconverted>>
    /\ UNCHANGED <<vars, http_vars>>

\* The cell is the one element of a list, a tuple or an array.
Wrap(type) ==
    /\ norm_pc = "raw"
    /\ Depth(raw_value) < MaxDepth
    /\ raw_value' = [t |-> type, k |-> "seq", v |-> <<raw_value>>]
    /\ UNCHANGED <<norm_pc, converted, reconverted>>
    /\ UNCHANGED <<vars, http_vars>>

\* The cell is the value of a dict's key.
WrapDict(key) ==
    /\ norm_pc = "raw"
    /\ Depth(raw_value) < MaxDepth
    /\ raw_value' = PyDict([name \in {key} |-> raw_value])
    /\ UNCHANGED <<norm_pc, converted, reconverted>>
    /\ UNCHANGED <<vars, http_vars>>

\* The sequence has one more element.
Extend(x) ==
    /\ norm_pc = "raw"
    /\ IsSeq(raw_value)
    /\ Len(raw_value.v) >= 1
    /\ Len(raw_value.v) < MaxLen
    /\ raw_value' = [raw_value EXCEPT !.v = Append(@, x)]
    /\ UNCHANGED <<norm_pc, converted, reconverted>>
    /\ UNCHANGED <<vars, http_vars>>

\* convert_value(value) for the cell
Convert ==
    /\ norm_pc = "raw"
    /\ norm_pc' = "converted"
    /\ converted' = convert_value(raw_value)
    /\ UNCHANGED <<raw_value, reconverted>>
    /\ UNCHANGED <<vars, http_vars>>

\* convert_value applied to a converted cell
Reconvert ==
    /\ norm_pc = "converted"
    /\ norm_pc' = "reconverted"
    /\ reconverted' = convert_value(converted)
    /\ UNCHANGED <<raw_value, converted>>
    /\ UNCHANGED <<vars, http_vars>>

NormNext ==
    \/ \E x \in Leaves : Cell(x)
    \/ \E type \in SeqTypes : Wrap(type)
    \/ \E key \in DictKeys : WrapDict(key)
    \/ \E x \in Siblings : Extend(x)
    \/ Convert
    \/ Reconvert

----------------------------------------------------------------------------
\* The handlers of /properties/search (app/routers/properties.py)

RequiredParams == {"location", "listing_type"}

\* The optional parameters of the model, in the order the handlers test them.
HandlerOrder ==
    <<"past_days", "property_type", "radius", "sort_by", "limit", "offset",
      "parallel">>

OptionalParams == {HandlerOrder[i] : i \in 1..Len(HandlerOrder)}

\* PropertySearchRequest with offset and parallel declared.
PropertySearchRequestWithPaging ==
    RequiredParams \cup
        {"past_days", "property_type", "radius", "sort_by", "limit", "offset",
         "parallel"}

\* The fields PropertySearchRequest declares (of those of the model).
PropertySearchRequestFields ==
    RequiredParams \cup {"past_days", "property_type", "radius", "sort_by", "limit"}

\* search_properties accepting every key the handlers may pass.
SearchPropertiesAcceptsAll == RequiredParams \cup OptionalParams

\* The parameters search_properties declares (of those of the model).
SearchPropertiesParams ==
    RequiredParams \cup {"past_days", "radius", "sort_by", "limit"}

\* except ScraperError / except Exception: both answer 500, the second with
\* the detail "An unexpected error occurred: ...".
ErrorResponse(e) ==
    [status |-> "500",
     detail |-> IF e = "ScraperError" THEN "str(e)"
                ELSE "An unexpected error occurred",
     cause |-> e]

OkResponse == [status |-> "200", detail |-> "none", cause |-> "none"]

\* A request arrives: its method and the optional parameters it gives a
\* value (a body's undeclared keys are ignored by PropertySearchRequest).
Request(m, given) ==
    /\ http_pc \in {"idle", "responded"}
    /\ http_pc' = "handler"
    /\ method' = m
    /\ supplied' = given
    /\ kwargs' = {}
    /\ search_invoked' = 0
    /\ response' = NoResponse
    /\ UNCHANGED <<vars, norm_vars>>

\* properties = search_properties(**kwargs): a key the function does not
\* declare is a TypeError at the call, before its body (and the scraper).
CallSearch(kw) ==
    /\ kwargs' = kw
    /\ IF kw \subseteq SearchPropertiesParams
       THEN /\ http_pc' = "service"
            /\ search_invoked' = search_invoked + 1
            /\ UNCHANGED response
       ELSE /\ http_pc' = "responded"
            /\ response' = ErrorResponse("TypeError")
            /\ UNCHANGED search_invoked

\* search_properties_get up to its call of search_properties.
HandleGet ==
    /\ http_pc = "handler"
    /\ method = "GET"
    /\ CallSearch(RequiredParams \cup supplied)
    /\ UNCHANGED <<method, supplied>>
    /\ UNCHANGED <<vars, norm_vars>>

\* The positions of HandlerOrder whose name the request object lacks.
Undeclared ==
    {i \in 1..Len(HandlerOrder) : HandlerOrder[i] \notin PropertySearchRequestFields}

\* search_properties_post up to its call of search_properties: reading
\* request.<name> raises AttributeError for a name the model lacks.
HandlePost ==
    /\ http_pc = "handler"
    /\ method = "POST"
    /\ IF Undeclared # {}
       THEN LET first == CHOOSE i \in Undeclared : \A j \in Undeclared : i <= j
                read == {HandlerOrder[i] : i \in 1..(first - 1)}
            IN  /\ kwargs' = RequiredParams \cup (supplied \cap read)
                /\ http_pc' = "responded"
                /\ response' = ErrorResponse("AttributeError")
                /\ UNCHANGED search_invoked
       ELSE CallSearch(RequiredParams \cup supplied)
    /\ UNCHANGED <<method, supplied>>
    /\ UNCHANGED <<vars, norm_vars>>

\* search_properties returns its list: PropertySearchResponse, 200.
ServiceReturns ==
    /\ http_pc = "service"
    /\ http_pc' = "responded"
    /\ response' = OkResponse
    /\ UNCHANGED <<method, supplied, kwargs, search_invoked>>
    /\ UNCHANGED <<vars, norm_vars>>

\* search_properties raises ScraperError: except ScraperError, 500.
ServiceRaises ==
    /\ http_pc = "service"
    /\ http_pc' = "responded"
    /\ response' = ErrorResponse("ScraperError")
    /\ UNCHANGED <<method, supplied, kwargs, search_invoked>>
    /\ UNCHANGED <<vars, norm_vars>>

HttpNext ==
    \/ \E m \in {"GET", "POST"} : \E given \in SUBSET OptionalParams :
          Request(m, given)
    \/ HandleGet
    \/ HandlePost
    \/ ServiceReturns
    \/ ServiceRaises

----------------------------------------------------------------------------
\* The specifications: the service, the normalizer on its own, the handlers.

Spec == Init /\ [][Next]_all_vars

NormSpec == Init /\ [][NormNext]_all_vars

HttpSpec == Init /\ [][HttpNext]_all_vars

----------------------------------------------------------------------------
\* A value of the types a normalized row may hold: absent, bool, int, a float
\* that is not NaN, text, a sequence or a mapping of such values.
RECURSIVE Normalized(_)
Normalized(x) ==
    \/ x.t \in {"NoneType", "bool", "int", "str"}
    \/ x.t = "float" /\ x.k # "nan"
    \/ x.t = "list" /\ \A i \in 1..Len(x.v) : Normalized(x.v[i])
    \/ x.t = "dict" /\ \A key \in DOMAIN x.v : Normalized(x.v[key])

\* C11. Normalizer type closure: the output of convert_value is, at every
\* depth, absent, bool, int, non-NaN float, text, a sequence or a mapping (no
\* NaN, NaT, pandas null or numpy/pandas type remains), and an empty
\* sequence or mapping stays an empty sequence or mapping.
C11_TypeClosure ==
    norm_pc \in {"converted", "reconverted"} =>
        /\ Normalized(converted)
        /\ (IsSeq(raw_value) /\ raw_value.v = <<>>) => converted = PyList(<<>>)
        /\ (IsDict(raw_value) /\ DOMAIN raw_value.v = {}) =>
               converted = PyDict(<<>>)

\* C12. Normalizer idempotence: converting a converted value gives the same
\* value again.
C12_Idempotent ==
    norm_pc = "reconverted" => reconverted = converted

\* C12's case: a tuple of an array with a timestamp and a NaN, converted
\* twice.
C12_Witness ==
    /\ norm_pc = "reconverted"
    /\ raw_value = PyTuple(<<NdArray(<<Timestamp(1), NpNaN>>)>>)
    /\ converted = PyList(<<PyList(<<StrIso(1), PyNone>>)>>)
    /\ reconverted = converted

\* The parameters the GET handler forwards and search_properties lacks.
UndeclaredFilters == {"property_type", "offset", "parallel"}

\* C13. POST search never reaches the scraper: the handler reads
\* request.offset, which PropertySearchRequest does not declare, so every
\* POST ends in a 500 "An unexpected error occurred" response and
\* search_properties is never invoked.
C13_PostNeverSearches ==
    method = "POST" =>
        /\ http_pc # "service"
        /\ search_invoked = 0
        /\ http_pc = "responded" =>
               /\ response.status = "500"
               /\ response.detail = "An unexpected error occurred"
               /\ response.cause = "AttributeError"

\* C13's case: a POST with a radius and a limit has been answered.
C13_Witness ==
    /\ method = "POST" /\ http_pc = "responded"
    /\ supplied = {"radius", "limit"}
    /\ response.status = "500"

\* C14. GET search with an undeclared filter fails before scraping: a GET
\* with property_type, offset or parallel ends in a 500 "An unexpected error
\* occurred" response (not the ScraperError one) with search_properties
\* never invoked; a GET with none of the three reaches search_properties
\* with exactly its non-null parameters.
C14_GetUndeclaredFilter ==
    (method = "GET" /\ http_pc \in {"service", "responded"}) =>
        IF supplied \cap UndeclaredFilters # {}
        THEN /\ http_pc = "responded"
             /\ response.status = "500"
             /\ response.detail = "An unexpected error occurred"
             /\ response.cause # "ScraperError"
             /\ search_invoked = 0
        ELSE /\ search_invoked = 1
             /\ kwargs = RequiredParams \cup supplied

\* C14's cases: a GET with offset answered, and a GET without the three
\* filters inside search_properties.
C14_Witness ==
    /\ method = "GET"
    /\ \/ /\ http_pc = "responded" /\ supplied = {"radius", "offset"}
          /\ response.cause = "TypeError"
       \/ /\ http_pc = "service" /\ supplied = {"radius", "limit"}
          /\ kwargs = {"location", "listing_type", "radius", "limit"}

====
